---- MODULE Spec2Model ----
(***************************************************************************)
(* A model of medleydb/multitrack.py: the MultiTrack and Track classes and *)
(* the free functions format_index, get_dict_leaves and                    *)
(* read_annotation_file.                                                   *)
(*                                                                         *)
(* Python values are encoded as follows.                                   *)
(*   - a str is a sequence of one-character strings;                       *)
(*   - an optional value is a sequence: None is << >>, a present value v   *)
(*     is << v >>;                                                         *)
(*   - a float read from a file is the integer its digits denote;          *)
(*   - a path is a sequence of path components and name fragments;         *)
(*   - a call that raises returns a record whose exc field names the       *)
(*     exception and whose line field is the source line that raises.      *)
(***************************************************************************)
EXTENDS Integers, Sequences, FiniteSets, TLC

VARIABLES
    AUDIO_PATH,            \* the configured audio root: TRUE when set
    MIXING_COEFFICIENTS,   \* the global table: track id -> (stem index -> weight)
    files,                 \* the paths that exist on disk
    metadata_file,         \* the document stored in the track's metadata file
    ranking_file,          \* the lines of the track's melody-ranking file
    mt,                    \* the MultiTrack instance, << >> before construction
    raised,                \* the exception the constructor raised, if any
    trace,                 \* the file-system and table accesses of the constructor
    reads,                 \* read_annotation_file calls made by the lazy accessors
    tracks,                \* stand-alone Track instances with their arguments
    call,                  \* a pending call of a free function
    ret                    \* the value that call returned

vars == << AUDIO_PATH, MIXING_COEFFICIENTS, files, metadata_file, ranking_file,
           mt, raised, trace, reads, tracks, call, ret >>

world == << AUDIO_PATH, MIXING_COEFFICIENTS, files, metadata_file, ranking_file >>

(***************************************************************************)
(* Bounds of the model                                                     *)
(***************************************************************************)
MaxLen == 3        \* longest index string given to format_index
MaxCols == 3       \* most columns of an annotation row
MaxNodes == 5      \* most dictionaries and leaf values in an argument of get_dict_leaves
MaxReads == 2      \* most read_annotation_file calls followed after construction

(***************************************************************************)
(* Python values                                                           *)
(***************************************************************************)
None == << >>

Some(v) == << v >>

NoError == [exc |-> "", line |-> 0]

Error(e, l) == [exc |-> e, line |-> l]

Digits == {"0", "1", "2", "3", "4", "5", "6", "7", "8", "9"}

DigitVal(c) ==
    CASE c = "0" -> 0 [] c = "1" -> 1 [] c = "2" -> 2 [] c = "3" -> 3
      [] c = "4" -> 4 [] c = "5" -> 5 [] c = "6" -> 6 [] c = "7" -> 7
      [] c = "8" -> 8 [] c = "9" -> 9

RECURSIVE DecimalValue(_)
DecimalValue(s) ==
    IF s = << >> THEN 0
    ELSE 10 * DecimalValue(SubSeq(s, 1, Len(s) - 1)) + DigitVal(s[Len(s)])

\* int(s) and float(s) of a str over letters and digits: the value of a
\* non-empty run of decimal digits, ValueError for anything else.
IsNumeral(s) == s /= << >> /\ \A i \in 1..Len(s) : s[i] \in Digits

\* the sum of a function of numbers
RECURSIVE Total(_)
Total(f) ==
    IF DOMAIN f = {} THEN 0
    ELSE LET x == CHOOSE y \in DOMAIN f : TRUE
         IN f[x] + Total([y \in DOMAIN f \ {x} |-> f[y]])

\* str.strip(chars): every leading and every trailing character of chars goes.
RECURSIVE lstrip(_, _)
lstrip(s, chars) ==
    IF s /= << >> /\ s[1] \in chars THEN lstrip(Tail(s), chars) ELSE s

RECURSIVE rstrip(_, _)
rstrip(s, chars) ==
    IF s /= << >> /\ s[Len(s)] \in chars
    THEN rstrip(SubSeq(s, 1, Len(s) - 1), chars)
    ELSE s

strip(s, chars) == rstrip(lstrip(s, chars), chars)

(***************************************************************************)
(* format_index (lines 655-675)                                            *)
(* The argument is [kind, s, n]: kind "str" with the characters s, kind    *)
(* "int" with the value n, or kind "none".  The result is [kind, n, exc].  *)
(***************************************************************************)
StrArg(s) == [kind |-> "str", s |-> s, n |-> 0]

IntArg(n) == [kind |-> "int", s |-> << >>, n |-> n]

NoneArg == [kind |-> "none", s |-> << >>, n |-> 0]

IntResult(n) == [kind |-> "int", n |-> n, exc |-> ""]

NoneResult == [kind |-> "none", n |-> 0, exc |-> ""]

RaisedResult(e) == [kind |-> "raised", n |-> 0, exc |-> e]

int(s) == IF IsNumeral(s) THEN IntResult(DecimalValue(s)) ELSE RaisedResult("ValueError")

format_index_strip_one(index) ==
    IF index.kind = "str"
    THEN int(IF index.s /= << >> /\ index.s[1] \in {"S", "R"} THEN Tail(index.s) ELSE index.s)
    ELSE IF index.kind = "none" THEN NoneResult
    ELSE IntResult(index.n)

format_index(index) ==
    IF index.kind = "str"
    THEN int(strip(strip(index.s, {"S"}), {"R"}))
    ELSE IF index.kind = "none" THEN NoneResult
    ELSE IntResult(index.n)

(***************************************************************************)
(* read_annotation_file (lines 730-784)                                    *)
(* lines is the file as csv.reader yields it: a sequence of rows, each a   *)
(* sequence of fields, each a str.  num_cols is an optional integer.       *)
(* The result is [annotation, header, exc]: annotation an optional         *)
(* sequence of rows of numbers, header an optional sequence of fields.     *)
(***************************************************************************)
ReadResult(annotation, header) == [annotation |-> annotation, header |-> header, exc |-> ""]

ReadRaised(e) == [annotation |-> None, header |-> None, exc |-> e]

\* line[:num_cols] for num_cols >= 0
Prefix(line, n) == SubSeq(line, 1, IF n < Len(line) THEN n ELSE Len(line))

\* "if num_cols:" is taken for a num_cols that is neither None nor 0
Truthy(num_cols) == num_cols /= None /\ num_cols[1] /= 0

CutLine(line, num_cols) == IF Truthy(num_cols) THEN Prefix(line, num_cols[1]) ELSE line

read_annotation_file(exists, lines, num_cols, header) ==
    IF exists
    THEN IF header /\ lines = << >>
         THEN ReadRaised("StopIteration")
         ELSE LET head == IF header THEN lines[1] ELSE << >>
                  body == IF header THEN Tail(lines) ELSE lines
                  cut == [i \in 1..Len(body) |-> CutLine(body[i], num_cols)]
              IN IF \E i \in 1..Len(cut) : \E j \in 1..Len(cut[i]) : ~IsNumeral(cut[i][j])
                 THEN ReadRaised("ValueError")
                 ELSE ReadResult(
                        Some([i \in 1..Len(cut) |->
                                [j \in 1..Len(cut[i]) |-> DecimalValue(cut[i][j])]]),
                        Some(head))
    ELSE ReadResult(None, None)

(***************************************************************************)
(* get_dict_leaves (lines 678-708)                                         *)
(* A value is [tag, n, elems, entries]: tag "int" with the value n, tag    *)
(* "list" with the elements elems, or tag "dict" with the entries, in      *)
(* iteration order, each [k, v].  Only a list has __iter__.                *)
(***************************************************************************)
IntNode(n) == [tag |-> "int", n |-> n, elems |-> << >>, entries |-> << >>]

ListNode(l) == [tag |-> "list", n |-> 0, elems |-> l, entries |-> << >>]

DictNode(es) == [tag |-> "dict", n |-> 0, elems |-> << >>, entries |-> es]

isinstance_dict(v) == v.tag = "dict"

hasattr_iter(v) == v.tag = "list"

\* the elements of a set in the order an iteration yields them
RECURSIVE IterSet(_)
IterSet(S) ==
    IF S = {} THEN << >>
    ELSE LET x == CHOOSE y \in S : TRUE IN << x >> \o IterSet(S \ {x})

set(vals) == {vals[i] : i \in 1..Len(vals)}

get_dict_leaves_shallow(dictionary) ==
    LET RECURSIVE loop(_, _)
        loop(entries, vals) ==
            IF entries = << >> THEN vals
            ELSE LET v == entries[1].v
                 IN loop(Tail(entries),
                         IF isinstance_dict(v) THEN vals
                         ELSE IF hasattr_iter(v) THEN vals \o v.elems
                         ELSE Append(vals, v.n))
    IN IF isinstance_dict(dictionary)
       THEN set(loop(dictionary.entries, << >>))
       ELSE set(dictionary.elems)

RECURSIVE get_dict_leaves(_)
get_dict_leaves(dictionary) ==
    LET RECURSIVE loop(_, _)
        loop(entries, vals) ==
            IF entries = << >> THEN vals
            ELSE LET v == entries[1].v
                 IN loop(Tail(entries),
                         IF isinstance_dict(v) THEN vals \o IterSet(get_dict_leaves(v))
                         ELSE IF hasattr_iter(v) THEN vals \o v.elems
                         ELSE Append(vals, v.n))
    IN IF isinstance_dict(dictionary)
       THEN set(loop(dictionary.entries, << >>))
       ELSE set(dictionary.elems)

(***************************************************************************)
(* Paths (lines 19-39, 141-184): the fragments the format strings put      *)
(* together, in order.                                                     *)
(***************************************************************************)
os_path_join(a, b) == a \o b

os_path_exists(path) == path \in files

meta_path_of(track_id) == os_path_join(<< "METADATA_PATH" >>, << track_id, "_METADATA.yaml" >>)

annotation_dir_of(track_id) == os_path_join(<< "ANNOT_PATH" >>, << track_id, "_ANNOTATIONS" >>)

pitch_dir_of(track_id) == os_path_join(annotation_dir_of(track_id), << track_id, "_PITCH" >>)

audio_path_of(track_id) == os_path_join(<< "AUDIO_PATH" >>, << track_id >>)

stem_dir_path_of(track_id) == os_path_join(audio_path_of(track_id), << track_id, "_STEMS" >>)

raw_dir_path_of(track_id) == os_path_join(audio_path_of(track_id), << track_id, "_RAW" >>)

mix_path_of(track_id) == os_path_join(audio_path_of(track_id), << track_id, "_MIX.wav" >>)

melody_rankings_fpath_of(track_id) ==
    os_path_join(annotation_dir_of(track_id), << track_id, "_RANKING.txt" >>)

MelodySuffix(n) ==
    CASE n = 1 -> "_MELODY1.csv" [] n = 2 -> "_MELODY2.csv" [] OTHER -> "_MELODY3.csv"

melody_fpath_of(track_id, n) ==
    os_path_join(annotation_dir_of(track_id), << track_id, MelodySuffix(n) >>)

activation_fpath_of(track_id) ==
    os_path_join(annotation_dir_of(track_id), << track_id, "_ACTIVATION_CONF.lab" >>)

\* "%s_STEM_%s.csv" % (track_id, k[1:]) under the pitch directory
stem_pitch_path_of(track_id, k) ==
    os_path_join(pitch_dir_of(track_id), << track_id, "_STEM_" >> \o Tail(k) \o << ".csv" >>)

(***************************************************************************)
(* The contents of the annotation files: rows of (time, frequency), a      *)
(* third column in the pitch files, and the activation table under its     *)
(* header row.                                                             *)
(***************************************************************************)
IsPitchFile(path) == Len(path) > 5 /\ path[5] = "_PITCH"

IsActivationFile(path) == path[Len(path)] = "_ACTIVATION_CONF.lab"

FileLines(path) ==
    IF IsActivationFile(path)
    THEN << << << "t", "i", "m", "e" >>, << "S", "0", "1" >>, << "S", "0", "2" >> >>,
            << << "0" >>, << "1" >>, << "0" >> >>,
            << << "1" >>, << "1" >>, << "1" >> >> >>
    ELSE IF IsPitchFile(path)
    THEN << << << "0" >>, << "2" >>, << "x" >> >>,
            << << "1" >>, << "5" >> >> >>
    ELSE << << << "0" >>, << "3" >> >>,
            << << "1" >>, << "4" >> >> >>

read_annotation_file_at(fpath, num_cols, header) ==
    read_annotation_file(os_path_exists(fpath), FileLines(fpath), num_cols, header)

(***************************************************************************)
(* Track (lines 505-612)                                                   *)
(* A Track is the record of its attributes; pitch_annotation stands for    *)
(* the attribute _pitch_annotation and pitch_path for _pitch_path.         *)
(***************************************************************************)
INST_F0_TYPE == [i \in {"flute", "piano"} |-> IF i = "flute" THEN "m" ELSE "p"]

get_f0_type(instrument) ==
    IF instrument \in DOMAIN INST_F0_TYPE THEN INST_F0_TYPE[instrument] ELSE "?"

\* n_samples / sample_rate of the file, as sox reports them
get_duration(wave_fpath) == (441000 * Len(wave_fpath)) \div 44100

OptIndex(r) == IF r.kind = "none" THEN None ELSE Some(r.n)

\* a [instrument, file_path, stem_idx, mix_path, pitch_path, raw_idx, component,
\*    ranking, mix_coeff]: the arguments of Track(...)
Track_init(a) ==
    LET stem == format_index(a.stem_idx)
        raw == format_index(a.raw_idx)
        self == [ instrument |-> a.instrument,
                  f0_type |-> get_f0_type(a.instrument),
                  file_path |-> a.file_path,
                  component |-> a.component,
                  ranking |-> a.ranking,
                  stem_idx |-> OptIndex(stem),
                  raw_idx |-> OptIndex(raw),
                  mixing_coefficient |-> a.mix_coeff,
                  duration |-> IF a.file_path /= None /\ os_path_exists(a.file_path[1])
                               THEN Some(get_duration(a.file_path[1]))
                               ELSE None,
                  mix_path |-> a.mix_path,
                  pitch_annotation |-> None,
                  pitch_path |-> a.pitch_path ]
    IN IF stem.kind = "raised" THEN [raised |-> Error(stem.exc, 577), self |-> self]
       ELSE IF raw.kind = "raised" THEN [raised |-> Error(raw.exc, 578), self |-> self]
       ELSE [raised |-> NoError, self |-> self]

TrackFields ==
    { "instrument", "f0_type", "file_path", "component", "ranking", "stem_idx", "raw_idx",
      "mixing_coefficient", "duration", "mix_path", "pitch_annotation", "pitch_path" }

Track_eq_identity(self, other) ==
    \A f \in TrackFields \ {"pitch_annotation"} : self[f] = other[f]

\* __eq__: self.__dict__ == other.__dict__
Track_eq(self, other) == \A f \in TrackFields : self[f] = other[f]

\* __ne__: self.__dict__ != other.__dict__
Track_ne(self, other) == \E f \in TrackFields : self[f] /= other[f]

\* __hash__ over a tuple that also holds the cache _pitch_annotation
Track_hash_with_cache(self) ==
    << self.instrument, self.file_path, self.component, self.stem_idx, self.raw_idx,
       self.mix_path, self.pitch_path, self.pitch_annotation >>

\* __hash__: the hash of this tuple
Track_hash(self) ==
    << self.instrument, self.file_path, self.component, self.stem_idx, self.raw_idx,
       self.mix_path, self.pitch_path >>

\* the property pitch_annotation: [loads, raised, self] where loads tells
\* whether read_annotation_file was called and self is the Track afterwards
Track_pitch_annotation(self) ==
    IF self.pitch_path /= None /\ self.pitch_annotation = None
    THEN LET r == read_annotation_file_at(self.pitch_path[1], Some(2), FALSE)
         IN IF r.exc /= ""
            THEN [loads |-> TRUE, raised |-> Error(r.exc, 780), self |-> self]
            ELSE [loads |-> TRUE, raised |-> NoError,
                  self |-> [self EXCEPT !.pitch_annotation = r.annotation]]
    ELSE [loads |-> FALSE, raised |-> NoError, self |-> self]

(***************************************************************************)
(* MultiTrack (lines 42-502)                                               *)
(* A dict is a function on its set of keys.  An attribute that names one   *)
(* of the object's own Tracks (predominant_stem) holds the stem index of   *)
(* that Track.  A sorted list of labels is the multiset it lists: a        *)
(* function from label to number of occurrences.                           *)
(***************************************************************************)
EmptyDict == [k \in {} |-> 0]

Ev(op, path) == [op |-> op, path |-> path]

Fail(exc, line, t) == [raised |-> Error(exc, line), self |-> None, trace |-> t]

YESNO == [k \in {"yes", "no"} |-> k = "yes"]

\* track_id.split('_') of a track id 'Artist_Title'
split_track_id(track_id) ==
    IF track_id = "LizNelson_Rainfall" THEN << "LizNelson", "Rainfall" >>
    ELSE << track_id, track_id >>

\* s.split(sep)[-1]: what follows the last sep
RECURSIVE split_last(_, _)
split_last(s, sep) ==
    IF \E i \in 1..Len(s) : s[i] = sep
    THEN split_last(SubSeq(s, (CHOOSE i \in 1..Len(s) : s[i] = sep /\ \A j \in 1..(i - 1) : s[j] /= sep) + 1,
                           Len(s)), sep)
    ELSE s

\* s.split(sep)[0]: what precedes the first sep
split_first(s, sep) ==
    IF \E i \in 1..Len(s) : s[i] = sep
    THEN SubSeq(s, 1, (CHOOSE i \in 1..Len(s) : s[i] = sep /\ \A j \in 1..(i - 1) : s[j] /= sep) - 1)
    ELSE s

\* _get_melody_rankings: [exc, line, rankings] for the lines of the ranking file
RECURSIVE read_rankings(_, _)
read_rankings(lines, melody_rankings) ==
    IF lines = << >> THEN [exc |-> "", line |-> 0, rankings |-> melody_rankings]
    ELSE LET stem_idx == int(split_first(split_last(lines[1][1], "_"), "."))
             ranking == int(lines[1][2])
         IN IF stem_idx.kind = "raised"
            THEN [exc |-> stem_idx.exc, line |-> 359, rankings |-> melody_rankings]
            ELSE IF ranking.kind = "raised"
            THEN [exc |-> ranking.exc, line |-> 360, rankings |-> melody_rankings]
            ELSE read_rankings(Tail(lines),
                   [k \in DOMAIN melody_rankings \cup {stem_idx.n} |->
                        IF k = stem_idx.n THEN ranking.n ELSE melody_rankings[k]])

get_melody_rankings(melody_rankings_fpath) ==
    IF os_path_exists(melody_rankings_fpath)
    THEN read_rankings(ranking_file, EmptyDict)
    ELSE [exc |-> "", line |-> 0, rankings |-> EmptyDict]

\* the keys of melody_rankings whose ranking is 1 (the list predominant_idx)
PredominantIdx(melody_rankings) == {k \in DOMAIN melody_rankings : melody_rankings[k] = 1}

\* _get_predominant_stem: first is the element the list predominant_idx
\* starts with, which the dictionary's iteration order decides
get_predominant_stem(melody_rankings, stems, first) ==
    IF Cardinality(DOMAIN melody_rankings) > 0
    THEN IF PredominantIdx(melody_rankings) /= {}
         THEN IF first \in DOMAIN stems
              THEN [raised |-> NoError, stem |-> Some(first)]
              ELSE [raised |-> Error("KeyError", 381), stem |-> None]
         ELSE [raised |-> NoError, stem |-> None]
    ELSE [raised |-> NoError, stem |-> None]

\* the loop of _get_activation_annotations over enumerate(header), from position i
RECURSIVE activation_idx(_, _, _)
activation_idx(header, i, idx_dict) ==
    IF i > Len(header) THEN [raised |-> NoError, idx_dict |-> idx_dict]
    ELSE IF header[i] = << "t", "i", "m", "e" >>
    THEN activation_idx(header, i + 1, idx_dict)
    ELSE LET stem_idx == format_index(StrArg(header[i]))
         IN IF stem_idx.kind = "raised"
            THEN [raised |-> Error(stem_idx.exc, 408), idx_dict |-> idx_dict]
            ELSE activation_idx(header, i + 1,
                   [k \in DOMAIN idx_dict \cup {stem_idx.n} |->
                        IF k = stem_idx.n THEN i - 1 ELSE idx_dict[k]])

get_activation_annotations(track_id) ==
    LET r == read_annotation_file_at(activation_fpath_of(track_id), None, TRUE)
    IN IF r.exc /= ""
       THEN [raised |-> Error(r.exc, 400), activations |-> None, idx_dict |-> EmptyDict]
       ELSE IF r.header = None
       THEN [raised |-> Error("TypeError", 404), activations |-> None, idx_dict |-> EmptyDict]
       ELSE LET loop == activation_idx(r.header[1], 1, EmptyDict)
            IN [raised |-> loop.raised, activations |-> r.annotation, idx_dict |-> loop.idx_dict]

track_file_path_unguarded(dir_path, file_name) == Some(os_path_join(dir_path, file_name))

\* the file_path of a stem or raw Track: under the directory when an audio
\* root is configured, None otherwise
track_file_path(dir_path, file_name) ==
    IF AUDIO_PATH THEN Some(os_path_join(dir_path, file_name)) ELSE None

\* the ranking of a stem: its entry in melody_rankings, None without one
ranking_of(melody_rankings, stem_idx) ==
    IF stem_idx \in DOMAIN melody_rankings THEN Some(melody_rankings[stem_idx]) ELSE None

\* the stem Track of key k (lines 295-320)
stem_track(track_id, stem_dict, k, melody_rankings, mixing_coefficients, mix_path) ==
    LET stem_idx == int(Tail(k)).n
    IN Track_init([ instrument |-> stem_dict[k].instrument,
                    file_path |-> track_file_path(stem_dir_path_of(track_id), stem_dict[k].filename),
                    component |-> stem_dict[k].component,
                    stem_idx |-> IntArg(stem_idx),
                    ranking |-> ranking_of(melody_rankings, stem_idx),
                    mix_path |-> mix_path,
                    pitch_path |-> Some(stem_pitch_path_of(track_id, k)),
                    raw_idx |-> NoneArg,
                    mix_coeff |-> Some(mixing_coefficients[stem_idx]) ]).self

\* the raw Track built without the ranking of its stem
raw_track_unranked(track_id, stem_dict, k, j, melody_rankings, mix_path) ==
    LET stem_idx == int(Tail(k)).n
        raw_dict == stem_dict[k].raw
    IN Track_init([ instrument |-> raw_dict[j].instrument,
                    file_path |-> track_file_path(raw_dir_path_of(track_id), raw_dict[j].filename),
                    component |-> "",
                    stem_idx |-> IntArg(stem_idx),
                    ranking |-> None,
                    mix_path |-> mix_path,
                    pitch_path |-> None,
                    raw_idx |-> IntArg(int(Tail(j)).n),
                    mix_coeff |-> None ]).self

\* the raw Track built without its raw index
raw_track_without_raw_idx(track_id, stem_dict, k, j, melody_rankings, mix_path) ==
    LET stem_idx == int(Tail(k)).n
        raw_dict == stem_dict[k].raw
    IN Track_init([ instrument |-> raw_dict[j].instrument,
                    file_path |-> track_file_path(raw_dir_path_of(track_id), raw_dict[j].filename),
                    component |-> "",
                    stem_idx |-> IntArg(stem_idx),
                    ranking |-> ranking_of(melody_rankings, stem_idx),
                    mix_path |-> mix_path,
                    pitch_path |-> None,
                    raw_idx |-> NoneArg,
                    mix_coeff |-> None ]).self

\* the raw Track of key j under the stem of key k (lines 326-337)
raw_track(track_id, stem_dict, k, j, melody_rankings, mix_path) ==
    LET stem_idx == int(Tail(k)).n
        raw_dict == stem_dict[k].raw
    IN Track_init([ instrument |-> raw_dict[j].instrument,
                    file_path |-> track_file_path(raw_dir_path_of(track_id), raw_dict[j].filename),
                    component |-> "",
                    stem_idx |-> IntArg(stem_idx),
                    ranking |-> ranking_of(melody_rankings, stem_idx),
                    mix_path |-> mix_path,
                    pitch_path |-> None,
                    raw_idx |-> IntArg(int(Tail(j)).n),
                    mix_coeff |-> None ]).self

\* _parse_metadata: [raised, stems, raw_audio, built], built the number of
\* Tracks constructed
parse_metadata(track_id, metadata, melody_rankings, mixing_coefficients, mix_path) ==
    LET stem_dict == metadata.stems
        keys == DOMAIN stem_dict
        idx(k) == int(Tail(k))
        key_of(i) == CHOOSE k \in keys : idx(k).n = i
        raw_key_of(k, r) == CHOOSE j \in DOMAIN stem_dict[k].raw : int(Tail(j)).n = r
    IN IF \E k \in keys : idx(k).kind = "raised"
       THEN [raised |-> Error("ValueError", 295), stems |-> EmptyDict, raw_audio |-> EmptyDict,
             built |-> 0]
       ELSE IF \E k \in keys : idx(k).n \notin DOMAIN mixing_coefficients
       THEN [raised |-> Error("KeyError", 320), stems |-> EmptyDict, raw_audio |-> EmptyDict,
             built |-> 0]
       ELSE [raised |-> NoError,
             stems |-> [i \in {idx(k).n : k \in keys} |->
                          stem_track(track_id, stem_dict, key_of(i), melody_rankings,
                                     mixing_coefficients, mix_path)],
             raw_audio |-> [i \in {idx(k).n : k \in {x \in keys : DOMAIN stem_dict[x].raw /= {}}} |->
                              [r \in {int(Tail(j)).n : j \in DOMAIN stem_dict[key_of(i)].raw} |->
                                  raw_track(track_id, stem_dict, key_of(i),
                                            raw_key_of(key_of(i), r), melody_rankings, mix_path)]],
             built |-> Cardinality(keys)
                         + Cardinality({<< k, j >> \in keys \X UNION {DOMAIN stem_dict[x].raw : x \in keys} :
                                            j \in DOMAIN stem_dict[k].raw})]

\* set(vals) of a list of Tracks: an element equal to an earlier one, with
\* the same hash, is not added again
set_of_tracks(vals) ==
    {vals[i] : i \in {n \in 1..Len(vals) :
                        \A m \in 1..(n - 1) :
                            ~(Track_hash(vals[m]) = Track_hash(vals[n]) /\ Track_eq(vals[m], vals[n]))}}

\* get_dict_leaves(self.raw_audio): the recursion of get_dict_leaves on the
\* two-level dict of Tracks, none of which has __iter__
raw_audio_leaves(raw_audio) ==
    LET inner(d) == set_of_tracks(IterSet({d[r] : r \in DOMAIN d}))
        RECURSIVE outer(_, _)
        outer(ks, vals) ==
            IF ks = {} THEN vals
            ELSE LET k == CHOOSE x \in ks : TRUE
                 IN outer(ks \ {k}, vals \o IterSet(inner(raw_audio[k])))
    IN set_of_tracks(outer(DOMAIN raw_audio, << >>))

\* sorted([t.instrument for t in ts])
sorted_instruments(ts) ==
    [i \in {t.instrument : t \in ts} |-> Cardinality({t \in ts : t.instrument = i})]

\* __init__ with the metadata check made after the table lookup
MultiTrack_init_late_check(track_id, first) ==
    IF track_id \notin DOMAIN MIXING_COEFFICIENTS
    THEN Fail("KeyError", 187, << Ev("MIXING_COEFFICIENTS", << track_id >>) >>)
    ELSE Fail("IOError", 147, << Ev("MIXING_COEFFICIENTS", << track_id >>),
                                  Ev("exists", meta_path_of(track_id)) >>)

\* __init__ with a track id the table lacks given an empty table of
\* coefficients, as MIXING_COEFFICIENTS.get(track_id, {}) would
MultiTrack_init_default_table(track_id, first) ==
    IF ~os_path_exists(meta_path_of(track_id))
    THEN Fail("IOError", 147, << Ev("exists", meta_path_of(track_id)) >>)
    ELSE LET mixing_coefficients == IF track_id \in DOMAIN MIXING_COEFFICIENTS
                                    THEN MIXING_COEFFICIENTS[track_id]
                                    ELSE EmptyDict
             ranked == get_melody_rankings(melody_rankings_fpath_of(track_id))
             parsed == parse_metadata(track_id, metadata_file[1], ranked.rankings,
                                      mixing_coefficients,
                                      IF AUDIO_PATH THEN Some(mix_path_of(track_id)) ELSE None)
         IN IF parsed.raised /= NoError
            THEN Fail(parsed.raised.exc, parsed.raised.line, << >>)
            ELSE [ raised |-> NoError,
                   self |-> Some([ track_id |-> track_id,
                                   stems |-> parsed.stems,
                                   raw_audio |-> parsed.raw_audio,
                                   melody_annotation |-> << None, None, None >> ]),
                   trace |-> << >> ]

\* __init__: first is the element the list predominant_idx starts with
MultiTrack_init(track_id, first) ==
    LET meta_path == meta_path_of(track_id)
        t1 == << Ev("exists", meta_path) >>
    IN IF ~os_path_exists(meta_path) THEN Fail("IOError", 147, t1)
       ELSE
       LET mix_path == IF AUDIO_PATH THEN Some(mix_path_of(track_id)) ELSE None
           metadata == metadata_file[1]
           t2 == Append(t1, Ev("open", meta_path))
           fpath == melody_rankings_fpath_of(track_id)
           ranked == get_melody_rankings(fpath)
           t3 == t2 \o << Ev("exists", fpath) >>
                    \o (IF os_path_exists(fpath) THEN << Ev("open", fpath) >> ELSE << >>)
           t4 == Append(t3, Ev("MIXING_COEFFICIENTS", << track_id >>))
       IN IF ranked.exc /= "" THEN Fail(ranked.exc, ranked.line, t3)
          ELSE IF track_id \notin DOMAIN MIXING_COEFFICIENTS THEN Fail("KeyError", 187, t4)
          ELSE
          LET mixing_coefficients == MIXING_COEFFICIENTS[track_id]
              parsed == parse_metadata(track_id, metadata, ranked.rankings,
                                       mixing_coefficients, mix_path)
              t5 == t4 \o [i \in 1..parsed.built |-> Ev("Track", << >>)]
          IN IF parsed.raised /= NoError THEN Fail(parsed.raised.exc, parsed.raised.line, t4)
             ELSE IF \E f \in {"excerpt", "has_bleed", "instrumental"} : metadata[f] \notin DOMAIN YESNO
             THEN Fail("KeyError", 207,
                       t5 \o (IF mix_path /= None THEN << Ev("exists", mix_path[1]) >> ELSE << >>))
             ELSE
             LET mel1_path == melody_fpath_of(track_id, 1)
                 t6 == t5 \o (IF mix_path /= None THEN << Ev("exists", mix_path[1]) >> ELSE << >>)
                          \o << Ev("exists", mel1_path) >>
                 predominant == get_predominant_stem(ranked.rankings, parsed.stems, first)
                 activation == get_activation_annotations(track_id)
                 t7 == Append(t6, Ev("read_annotation_file", activation_fpath_of(track_id)))
                 self ==
                   [ artist |-> split_track_id(track_id)[1],
                     title |-> split_track_id(track_id)[2],
                     track_id |-> track_id,
                     meta_path |-> meta_path,
                     annotation_dir |-> annotation_dir_of(track_id),
                     pitch_path |-> pitch_dir_of(track_id),
                     audio_path |-> IF AUDIO_PATH THEN Some(audio_path_of(track_id)) ELSE None,
                     stem_dir_path |-> IF AUDIO_PATH THEN Some(stem_dir_path_of(track_id)) ELSE None,
                     raw_dir_path |-> IF AUDIO_PATH THEN Some(raw_dir_path_of(track_id)) ELSE None,
                     mix_path |-> mix_path,
                     metadata |-> metadata,
                     melody_rankings_fpath |-> fpath,
                     melody_rankings |-> ranked.rankings,
                     mixing_coefficients |-> mixing_coefficients,
                     stems |-> parsed.stems,
                     raw_audio |-> parsed.raw_audio,
                     stem_instruments |->
                         sorted_instruments({parsed.stems[i] : i \in DOMAIN parsed.stems}),
                     raw_instruments |-> sorted_instruments(raw_audio_leaves(parsed.raw_audio)),
                     duration |-> IF mix_path /= None /\ os_path_exists(mix_path[1])
                                  THEN Some(get_duration(mix_path[1]))
                                  ELSE None,
                     is_excerpt |-> YESNO[metadata.excerpt],
                     has_bleed |-> YESNO[metadata.has_bleed],
                     is_instrumental |-> YESNO[metadata.instrumental],
                     origin |-> metadata.origin,
                     genre |-> metadata.genre,
                     metadata_version |-> metadata.version,
                     has_melody |-> os_path_exists(mel1_path),
                     melody_annotation |-> << None, None, None >>,
                     predominant_stem |-> predominant.stem,
                     stem_activations |-> activation.activations,
                     stem_activations_idx |-> activation.idx_dict ]
             IN IF predominant.raised /= NoError
                THEN Fail(predominant.raised.exc, predominant.raised.line, t6)
                ELSE IF activation.raised /= NoError
                THEN Fail(activation.raised.exc, activation.raised.line, t7)
                ELSE [raised |-> NoError, self |-> Some(self), trace |-> t7]

\* the properties melody1_annotation, melody2_annotation, melody3_annotation:
\* [loads, raised, self]
MultiTrack_melody_annotation(self, n) ==
    IF self.melody_annotation[n] = None
    THEN LET r == read_annotation_file_at(melody_fpath_of(self.track_id, n), None, FALSE)
         IN IF r.exc /= ""
            THEN [loads |-> TRUE, raised |-> Error(r.exc, 780), self |-> self]
            ELSE [loads |-> TRUE, raised |-> NoError,
                  self |-> [self EXCEPT !.melody_annotation[n] = r.annotation]]
    ELSE [loads |-> FALSE, raised |-> NoError, self |-> self]

\* num_stems
num_stems(self) == Cardinality(DOMAIN self.stems)

\* num_raw
num_raw(self) == Cardinality(raw_audio_leaves(self.raw_audio))

\* raw_filepaths: the list holds one file_path per leaf, in the order the set
\* yields them; it is the multiset it lists
raw_filepaths(self) ==
    LET ts == raw_audio_leaves(self.raw_audio)
    IN [p \in {t.file_path : t \in ts} |-> Cardinality({t \in ts : t.file_path = p})]

(***************************************************************************)
(* Arguments of the free functions                                         *)
(***************************************************************************)
IndexChars == {"S", "R", "s", "0", "2", "5"}

IndexStrings == UNION {[1..n -> IndexChars] : n \in 0..MaxLen}

IndexArgs == {StrArg(s) : s \in IndexStrings} \cup {IntArg(n) : n \in {0, 5, 7}} \cup {NoneArg}

Fields == {<< "1" >>, << "2" >>, << "x" >>}

Rows == UNION {[1..n -> Fields] : n \in 0..MaxCols}

Lines == UNION {[1..n -> Rows] : n \in {0, 1, 2}}

NumCols == {None} \cup {Some(n) : n \in 0..MaxCols}

LeafInts == {1, 2, 3}

LeafLists == {<< 1, 2 >>, << 3, 3 >>}

LeafNodes == {IntNode(n) : n \in LeafInts} \cup {ListNode(l) : l \in LeafLists}

KeyName(i) == CASE i = 1 -> "a" [] i = 2 -> "b" [] i = 3 -> "c" [] i = 4 -> "d" [] OTHER -> "e"

\* the dictionaries of exactly w nodes, and the sequences of values of w nodes in all
RECURSIVE NodesOfSize(_), ValueSeqs(_)
NodesOfSize(w) ==
    IF w = 1 THEN LeafNodes \cup {DictNode(<< >>)}
    ELSE {DictNode([i \in 1..Len(s) |-> [k |-> KeyName(i), v |-> s[i]]]) : s \in ValueSeqs(w - 1)}

ValueSeqs(t) ==
    IF t = 0 THEN {<< >>}
    ELSE UNION {{<< v >> \o s : v \in NodesOfSize(k), s \in ValueSeqs(t - k)} : k \in 1..t}

DictionariesOfSize(n) == {d \in UNION {NodesOfSize(w) : w \in 1..n} : isinstance_dict(d)}

(***************************************************************************)
(* Specifications of the free functions: a call is drawn, then returns.    *)
(***************************************************************************)
Idle ==
    /\ AUDIO_PATH = FALSE
    /\ MIXING_COEFFICIENTS = << >>
    /\ files = {}
    /\ metadata_file = << >>
    /\ ranking_file = << >>
    /\ mt = None
    /\ raised = NoError
    /\ trace = << >>
    /\ reads = << >>
    /\ tracks = << >>

UnchangedObjects ==
    UNCHANGED << AUDIO_PATH, MIXING_COEFFICIENTS, files, metadata_file, ranking_file,
                 mt, raised, trace, reads, tracks >>

InitFormat ==
    /\ Idle
    /\ call \in {[fn |-> "format_index", index |-> a] : a \in IndexArgs}
    /\ ret = None

Call_format_index ==
    /\ call.fn = "format_index"
    /\ ret = None
    /\ ret' = Some(format_index(call.index))
    /\ UNCHANGED call
    /\ UnchangedObjects

NextFormat == Call_format_index

SpecFormat == InitFormat /\ [][NextFormat]_vars

InitRead ==
    /\ Idle
    /\ call \in {[fn |-> "read_annotation_file", exists |-> e, lines |-> l,
                  num_cols |-> n, header |-> h] :
                    e \in BOOLEAN, l \in Lines, n \in NumCols, h \in BOOLEAN}
    /\ ret = None

Call_read_annotation_file ==
    /\ call.fn = "read_annotation_file"
    /\ ret = None
    /\ ret' = Some(read_annotation_file(call.exists, call.lines, call.num_cols, call.header))
    /\ UNCHANGED call
    /\ UnchangedObjects

NextRead == Call_read_annotation_file

SpecRead == InitRead /\ [][NextRead]_vars

InitLeaves ==
    /\ Idle
    /\ call \in {[fn |-> "get_dict_leaves", dictionary |-> d] : d \in DictionariesOfSize(MaxNodes)}
    /\ ret = None

Call_get_dict_leaves ==
    /\ call.fn = "get_dict_leaves"
    /\ ret = None
    /\ ret' = Some(get_dict_leaves(call.dictionary))
    /\ UNCHANGED call
    /\ UnchangedObjects

NextLeaves == Call_get_dict_leaves

SpecLeaves == InitLeaves /\ [][NextLeaves]_vars

(***************************************************************************)
(* Stand-alone Tracks: two Tracks are built from drawn arguments and their *)
(* pitch annotations are read.                                             *)
(***************************************************************************)
TheTrackId == "LizNelson_Rainfall"

WavPath == os_path_join(stem_dir_path_of(TheTrackId), << TheTrackId, "_STEM_", "0", "7", ".wav" >>)

PitchPath == stem_pitch_path_of(TheTrackId, << "S", "0", "7" >>)

TrackArgs ==
    [ instrument : {"flute", "kazoo"},
      file_path : {None, Some(WavPath)},
      stem_idx : {IntArg(7), StrArg(<< "S", "0", "7" >>)},
      mix_path : {None},
      pitch_path : {None, Some(PitchPath)},
      raw_idx : {NoneArg, StrArg(<< "R", "0", "2" >>)},
      component : {""},
      ranking : {None, Some(1)},
      mix_coeff : {None} ]

InitTrack ==
    /\ AUDIO_PATH = TRUE
    /\ MIXING_COEFFICIENTS = << >>
    /\ files \in SUBSET {WavPath, PitchPath}
    /\ metadata_file = << >>
    /\ ranking_file = << >>
    /\ mt = None
    /\ raised = NoError
    /\ trace = << >>
    /\ reads = << 0, 0 >>
    /\ tracks = << >>
    /\ call = << >>
    /\ ret = None

Track_new ==
    \E a \in TrackArgs :
        LET r == Track_init(a)
        IN /\ Len(tracks) < Len(reads)
           /\ r.raised = NoError
           /\ tracks' = Append(tracks, [args |-> a, self |-> r.self])
           /\ UNCHANGED << world, mt, raised, trace, reads, call, ret >>

Track_get_pitch_annotation ==
    \E i \in 1..Len(tracks) :
        LET r == Track_pitch_annotation(tracks[i].self)
        IN /\ r.loads => Total(reads) < MaxReads
           /\ tracks' = [tracks EXCEPT ![i].self = r.self]
           /\ reads' = IF r.loads THEN [reads EXCEPT ![i] = @ + 1] ELSE reads
           /\ ret' = Some(r.self.pitch_annotation)
           /\ UNCHANGED << world, mt, raised, trace, call >>

NextTrack == Track_new \/ Track_get_pitch_annotation

SpecTrack == InitTrack /\ [][NextTrack]_vars

(***************************************************************************)
(* The dataset a MultiTrack is built from, and the specification of one    *)
(* MultiTrack: it is constructed, then its annotations are read.           *)
(***************************************************************************)
TrackIds == {TheTrackId}

StemKeys == {<< "S", "0", "1" >>, << "S", "0", "2" >>}

RawKeys(k) ==
    IF k = << "S", "0", "1" >> THEN {<< "R", "0", "1" >>, << "R", "0", "2" >>} ELSE {<< "R", "0", "1" >>}

StemFileName(k) == << TheTrackId, "_STEM_" >> \o Tail(k) \o << ".wav" >>

RawFileName(k, j) == << TheTrackId, "_RAW_" >> \o Tail(k) \o << "_" >> \o Tail(j) \o << ".wav" >>

StemEntry(k) ==
    [ instrument |-> IF k = << "S", "0", "1" >> THEN "flute" ELSE "piano",
      component |-> IF k = << "S", "0", "1" >> THEN "melody" ELSE "bass",
      filename |-> StemFileName(k),
      raw |-> [j \in RawKeys(k) |-> [instrument |-> "flute", filename |-> RawFileName(k, j)]] ]

\* the stems that may come without raw sources
BareStemKeys == {<< "S", "0", "2" >>}

\* one document per choice of the declared stems and, among them, of the
\* stems without raw sources
MetadataDocs ==
    { [ excerpt |-> "no", has_bleed |-> "yes", instrumental |-> "no", origin |-> "Dolan",
        genre |-> "Pop", version |-> "1.2",
        stems |-> [k \in p[1] |-> IF k \in p[2] THEN [StemEntry(k) EXCEPT !.raw = << >>]
                                  ELSE StemEntry(k)] ] :
        p \in {q \in (SUBSET StemKeys) \X (SUBSET BareStemKeys) : q[2] \subseteq q[1]} }

RankLine(k, rank) == << << "m", "_" >> \o Tail(k) \o << ".", "w" >>, << rank >> >>

\* one line per ranked stem, for every choice of the ranked stems and of
\* their ranks among 1 and 2
RankingFiles ==
    { LET ks == IterSet(DOMAIN f) IN [i \in 1..Len(ks) |-> RankLine(ks[i], f[ks[i]])] :
        f \in UNION {[K -> {"1", "2"}] : K \in SUBSET StemKeys} }

StemIdxs == {int(Tail(k)).n : k \in StemKeys}

MixingTables ==
    { EmptyDict,
      [t \in TrackIds |-> [i \in {1} |-> 6]],
      [t \in TrackIds |-> [i \in StemIdxs |-> 6]] }

AnnotationFiles ==
    {melody_fpath_of(TheTrackId, n) : n \in 1..3} \cup {activation_fpath_of(TheTrackId)}

PitchFiles == {stem_pitch_path_of(TheTrackId, k) : k \in StemKeys}

StemAndRawFiles ==
    {os_path_join(stem_dir_path_of(TheTrackId), StemFileName(k)) : k \in StemKeys}
        \cup UNION {{os_path_join(raw_dir_path_of(TheTrackId), RawFileName(k, j)) : j \in RawKeys(k)} :
                        k \in StemKeys}

AudioFileSets ==
    { {}, {mix_path_of(TheTrackId)}, StemAndRawFiles, StemAndRawFiles \cup {mix_path_of(TheTrackId)} }

MelodyId(n) == [kind |-> "melody", a |-> n, b |-> 0]

StemId(s) == [kind |-> "stem", a |-> s, b |-> 0]

RawId(s, r) == [kind |-> "raw", a |-> s, b |-> r]

AnnotIds ==
    {MelodyId(n) : n \in 1..3} \cup {StemId(s) : s \in StemIdxs}
        \cup {RawId(s, r) : s \in StemIdxs, r \in StemIdxs}

Init ==
    /\ AUDIO_PATH \in BOOLEAN
    /\ MIXING_COEFFICIENTS \in MixingTables
    /\ metadata_file \in {None} \cup {Some(d) : d \in MetadataDocs}
    /\ \E annotations \in SUBSET AnnotationFiles, pitches \in SUBSET PitchFiles,
          audio \in (IF AUDIO_PATH THEN AudioFileSets ELSE {{}}), ranked \in BOOLEAN :
            /\ files = annotations \cup pitches \cup audio
                         \cup (IF metadata_file /= None THEN {meta_path_of(TheTrackId)} ELSE {})
                         \cup (IF ranked THEN {melody_rankings_fpath_of(TheTrackId)} ELSE {})
            /\ ranking_file \in (IF ranked THEN RankingFiles ELSE {<< >>})
    /\ mt = None
    /\ raised = NoError
    /\ trace = << >>
    /\ reads = [id \in AnnotIds |-> 0]
    /\ tracks = << >>
    /\ call = << >>
    /\ ret = None

\* the elements the list predominant_idx can start with
FirstChoices ==
    LET ranked == get_melody_rankings(melody_rankings_fpath_of(TheTrackId))
    IN IF PredominantIdx(ranked.rankings) = {} THEN {0} ELSE PredominantIdx(ranked.rankings)

Construct ==
    \E track_id \in TrackIds, first \in FirstChoices :
        LET r == MultiTrack_init(track_id, first)
        IN /\ mt = None
           /\ raised = NoError
           /\ mt' = r.self
           /\ raised' = r.raised
           /\ trace' = r.trace
           /\ UNCHANGED << world, reads, tracks, call, ret >>

Get_melody_annotation(n) ==
    LET r == MultiTrack_melody_annotation(mt[1], n)
    IN /\ mt /= None
       /\ r.loads => Total(reads) < MaxReads
       /\ mt' = Some(r.self)
       /\ reads' = IF r.loads THEN [reads EXCEPT ![MelodyId(n)] = @ + 1] ELSE reads
       /\ UNCHANGED << world, raised, trace, tracks, call, ret >>

Get_melody1_annotation == Get_melody_annotation(1)

Get_melody2_annotation == Get_melody_annotation(2)

Get_melody3_annotation == Get_melody_annotation(3)

Get_stem_pitch_annotation ==
    /\ mt /= None
    /\ \E s \in DOMAIN mt[1].stems :
        LET r == Track_pitch_annotation(mt[1].stems[s])
        IN /\ r.loads => Total(reads) < MaxReads
           /\ mt' = Some([mt[1] EXCEPT !.stems[s] = r.self])
           /\ reads' = IF r.loads THEN [reads EXCEPT ![StemId(s)] = @ + 1] ELSE reads
           /\ UNCHANGED << world, raised, trace, tracks, call, ret >>

Get_raw_pitch_annotation ==
    /\ mt /= None
    /\ \E s \in DOMAIN mt[1].raw_audio :
        \E j \in DOMAIN mt[1].raw_audio[s] :
            LET r == Track_pitch_annotation(mt[1].raw_audio[s][j])
            IN /\ r.loads => Total(reads) < MaxReads
               /\ mt' = Some([mt[1] EXCEPT !.raw_audio[s][j] = r.self])
               /\ reads' = IF r.loads THEN [reads EXCEPT ![RawId(s, j)] = @ + 1] ELSE reads
               /\ UNCHANGED << world, raised, trace, tracks, call, ret >>

Next ==
    \/ Construct
    \/ Get_melody1_annotation
    \/ Get_melody2_annotation
    \/ Get_melody3_annotation
    \/ Get_stem_pitch_annotation
    \/ Get_raw_pitch_annotation

Spec == Init /\ [][Next]_vars

(***************************************************************************)
(* Claims about the free functions                                         *)
(***************************************************************************)
Returned(fn) == call.fn = fn /\ ret /= None

\* C5 (as stated): format_index on a string strips exactly one leading 'S' or
\* 'R' and nothing else, and returns the remainder parsed as an integer; an
\* integer is returned as it is and an absent input gives an absent output.
C5_StripsExactlyOneLeadingPrefix ==
    Returned("format_index") => ret[1] = format_index_strip_one(call.index)

\* what the claim of C8 asks of one row: its first num_cols fields when
\* num_cols is specified, all of its fields otherwise
FirstColumns(line, num_cols) == IF num_cols /= None THEN Prefix(line, num_cols[1]) ELSE line

\* C8 (as stated): on an existing file read_annotation_file returns every row
\* truncated to its first num_cols columns whenever num_cols is specified,
\* 0 included, and untruncated only when num_cols is not specified.
C8_TruncatesWheneverSpecified ==
    (Returned("read_annotation_file") /\ call.exists /\ ret[1].exc = "") =>
        LET body == IF call.header THEN Tail(call.lines) ELSE call.lines
            annotation == ret[1].annotation[1]
        IN /\ Len(annotation) = Len(body)
           /\ \A i \in 1..Len(body) :
                LET want == FirstColumns(body[i], call.num_cols)
                IN /\ Len(annotation[i]) = Len(want)
                   /\ \A j \in 1..Len(want) :
                        IsNumeral(want[j]) => annotation[i][j] = DecimalValue(want[j])

\* the values that are not mappings, at any depth of a dictionary
RECURSIVE NonMappingValues(_)
NonMappingValues(d) ==
    LET here == {d.entries[i].v : i \in 1..Len(d.entries)}
    IN {v \in here : ~isinstance_dict(v)}
         \cup UNION {NonMappingValues(v) : v \in {x \in here : isinstance_dict(x)}}

Contribution(v) == IF v.tag = "list" THEN {v.elems[i] : i \in 1..Len(v.elems)} ELSE {v.n}

\* {'a': {'b': 1, 'c': 2}, 'd': 3}
ExampleDict ==
    DictNode(<< [k |-> "a", v |-> DictNode(<< [k |-> "a", v |-> IntNode(1)],
                                               [k |-> "b", v |-> IntNode(2)] >>)],
                [k |-> "b", v |-> IntNode(3)] >>)

\* {'a': {'b': [3, 3], 'c': 3}, 'd': 1}
DuplicatesDict ==
    DictNode(<< [k |-> "a", v |-> DictNode(<< [k |-> "a", v |-> ListNode(<< 3, 3 >>)],
                                               [k |-> "b", v |-> IntNode(3)] >>)],
                [k |-> "b", v |-> IntNode(1)] >>)

\* C10: get_dict_leaves on a nested mapping returns exactly the set of the
\* non-mapping values found at any depth, an iterable value contributing its
\* elements instead of itself and duplicates collapsed; the example
\* {'a': {'b': 1, 'c': 2}, 'd': 3} yields {1, 2, 3}.
C10_LeavesOfNestedMapping ==
    Returned("get_dict_leaves") =>
        /\ ret[1] = UNION {Contribution(v) : v \in NonMappingValues(call.dictionary)}
        /\ call.dictionary = ExampleDict => ret[1] = {1, 2, 3}

\* C10 witness: a nested mapping with a list and a repeated value was flattened
C10_Witness ==
    /\ Returned("get_dict_leaves")
    /\ call.dictionary = DuplicatesDict
    /\ ret[1] = {1, 3}

(***************************************************************************)
(* Claims about Track                                                      *)
(***************************************************************************)
Loaded(t) == t.self.pitch_annotation /= None

\* C7: two Tracks compare equal exactly when every field, the cache
\* _pitch_annotation included, is equal; so two Tracks built from identical
\* arguments compare equal until pitch_annotation has loaded data on exactly
\* one of them, and compare unequal after that.
C7_EqualityCoversTheCache ==
    \A i \in 1..Len(tracks) : \A j \in 1..Len(tracks) :
        LET a == tracks[i]
            b == tracks[j]
        IN /\ Track_eq(a.self, b.self) <=> (a.self = b.self)
           /\ Track_ne(a.self, b.self) <=> ~Track_eq(a.self, b.self)
           /\ a.args = b.args =>
                /\ Loaded(a) = Loaded(b) => Track_eq(a.self, b.self)
                /\ Loaded(a) /= Loaded(b) => ~Track_eq(a.self, b.self)

\* C7 witness: of two Tracks built from the same arguments, one has loaded
\* its pitch annotation and the other has not, and they compare unequal
C7_Witness ==
    /\ Len(tracks) = 2
    /\ tracks[1].args = tracks[2].args
    /\ Loaded(tracks[1])
    /\ ~Loaded(tracks[2])
    /\ ~Track_eq(tracks[1].self, tracks[2].self)

\* C13: any two Tracks that compare equal have the same hash, and the hash of
\* a Track after any accesses of pitch_annotation is the hash it had when it
\* was built, so the Track is still found where it was stored.
C13_HashAgreesWithEqualityAndIsStable ==
    /\ \A i \in 1..Len(tracks) : \A j \in 1..Len(tracks) :
            Track_eq(tracks[i].self, tracks[j].self) =>
                Track_hash(tracks[i].self) = Track_hash(tracks[j].self)
    /\ \A i \in 1..Len(tracks) :
            Track_hash(tracks[i].self) = Track_hash(Track_init(tracks[i].args).self)

\* C13 witness: two Tracks have both loaded their pitch annotation, compare
\* equal and hash alike, and hash as they did when built
C13_Witness ==
    /\ Len(tracks) = 2
    /\ Loaded(tracks[1])
    /\ Loaded(tracks[2])
    /\ Track_eq(tracks[1].self, tracks[2].self)
    /\ Track_hash(tracks[1].self) = Track_hash(tracks[2].self)
    /\ Track_hash(tracks[1].self) = Track_hash(Track_init(tracks[1].args).self)

(***************************************************************************)
(* Claims about MultiTrack                                                 *)
(***************************************************************************)
\* the constructor has run: it returned an object or it raised
Attempted == mt /= None \/ raised /= NoError

HasMetadata == os_path_exists(meta_path_of(TheTrackId))

HasMixingEntry == TheTrackId \in DOMAIN MIXING_COEFFICIENTS

DeclaredStems == {int(Tail(k)).n : k \in DOMAIN metadata_file[1].stems}

RankedStems == DOMAIN get_melody_rankings(melody_rankings_fpath_of(TheTrackId)).rankings

\* the metadata, the ranking file and the mixing entry speak of the same stems
ConsistentDataset ==
    /\ HasMetadata
    /\ HasMixingEntry
    /\ DeclaredStems \subseteq DOMAIN MIXING_COEFFICIENTS[TheTrackId]
    /\ RankedStems \subseteq DeclaredStems

\* C1 (as stated): when the metadata file exists and the mixing entry is
\* present, construction completes whichever optional inputs are missing, the
\* corresponding values are absent, and stem_activations is absent when the
\* activation-confidence file does not exist.
C1_ConstructionSurvivesMissingInputs ==
    (Attempted /\ ConsistentDataset) =>
        /\ raised = NoError
        /\ mt /= None
        /\ ~os_path_exists(activation_fpath_of(TheTrackId)) => mt[1].stem_activations = None
        /\ (~AUDIO_PATH \/ ~os_path_exists(mix_path_of(TheTrackId))) => mt[1].duration = None
        /\ ~os_path_exists(melody_rankings_fpath_of(TheTrackId)) =>
                mt[1].melody_rankings = EmptyDict

\* C2 (as stated): for each lazily loaded annotation of an instance,
\* read_annotation_file is called at most once, whether or not the file exists.
C2_LoadedAtMostOnce == \A id \in DOMAIN reads : reads[id] <= 1

\* C3: constructing a MultiTrack whose metadata file does not exist fails with
\* the 'cannot find metadata' error before the metadata is opened, the
\* ranking file is read, the mixing table is consulted or a Track is built.
C3_MetadataErrorComesFirst ==
    (Attempted /\ ~HasMetadata) =>
        /\ raised = Error("IOError", 147)
        /\ mt = None
        /\ trace = << Ev("exists", meta_path_of(TheTrackId)) >>

\* C3 witness: a track id missing both metadata and mixing data was tried
\* and the metadata error was reported
C3_Witness ==
    /\ ~HasMetadata
    /\ ~HasMixingEntry
    /\ raised = Error("IOError", 147)

\* the stems whose ranking is 1
RankOneStems(self) == {s \in DOMAIN self.stems : self.stems[s].ranking = Some(1)}

\* C4 (as stated): after construction predominant_stem is absent when no stem
\* has ranking 1 and is otherwise the unique stem whose ranking is 1, for
\* every content of the ranking file.
C4_PredominantStemIsTheRankOneStem ==
    /\ raised.line /= 381
    /\ mt /= None =>
        /\ RankOneStems(mt[1]) = {} => mt[1].predominant_stem = None
        /\ RankOneStems(mt[1]) /= {} =>
                /\ mt[1].predominant_stem /= None
                /\ RankOneStems(mt[1]) = {mt[1].predominant_stem[1]}

AllTracks(self) ==
    {self.stems[s] : s \in DOMAIN self.stems}
        \cup UNION {{self.raw_audio[s][r] : r \in DOMAIN self.raw_audio[s]} : s \in DOMAIN self.raw_audio}

\* C6: a MultiTrack constructed with no audio root has mix_path and duration
\* absent, and each of its stem and raw Tracks has file_path and duration absent.
C6_NoAudioRootNoAudio ==
    (mt /= None /\ ~AUDIO_PATH) =>
        /\ mt[1].mix_path = None
        /\ mt[1].duration = None
        /\ \A t \in AllTracks(mt[1]) : t.file_path = None /\ t.duration = None

\* C6 witness: a MultiTrack with stems and raw sources was constructed with
\* no audio root
C6_Witness ==
    /\ mt /= None
    /\ ~AUDIO_PATH
    /\ DOMAIN mt[1].stems /= {}
    /\ DOMAIN mt[1].raw_audio /= {}
    /\ \A t \in AllTracks(mt[1]) : t.file_path = None

\* C9 (as stated): for every track id with complete metadata, construction
\* succeeds, num_stems() is the number of entries of the metadata's stems
\* mapping and the keys of stems are the integers parsed from its keys.
C9_NumStemsIsTheMetadataCount ==
    (Attempted /\ ConsistentDataset) =>
        /\ mt /= None
        /\ num_stems(mt[1]) = Cardinality(DOMAIN metadata_file[1].stems)
        /\ DOMAIN mt[1].stems = DeclaredStems

\* C11: constructing a MultiTrack for a track id that has a metadata file but
\* no entry in the table of mixing coefficients fails with an error, and no
\* MultiTrack object, hence no stems and no raw_audio, results.
C11_MissingMixingEntryIsFatal ==
    (Attempted /\ HasMetadata /\ ~HasMixingEntry) =>
        /\ raised /= NoError
        /\ mt = None

\* C11 witness: the metadata declares stems, the table has no entry for the
\* track id, and the lookup at line 187 raised
C11_Witness ==
    /\ HasMetadata
    /\ ~HasMixingEntry
    /\ DOMAIN metadata_file[1].stems /= {}
    /\ raised = Error("KeyError", 187)
    /\ mt = None

\* C12: after construction, for every stem index s and raw index r with
\* raw_audio[s][r] present, s is a key of stems, and the raw Track has
\* stem_idx s, raw_idx r, an empty component, no mixing coefficient and the
\* ranking of stems[s].
C12_RawTracksBelongToTheirStem ==
    mt /= None =>
        \A s \in DOMAIN mt[1].raw_audio :
            /\ s \in DOMAIN mt[1].stems
            /\ \A r \in DOMAIN mt[1].raw_audio[s] :
                LET t == mt[1].raw_audio[s][r]
                IN /\ t.stem_idx = Some(s)
                   /\ t.raw_idx = Some(r)
                   /\ t.component = ""
                   /\ t.mixing_coefficient = None
                   /\ t.ranking = mt[1].stems[s].ranking

\* C12 witness: a constructed MultiTrack has a ranked stem with two raw Tracks
\* and a stem with none
C12_Witness ==
    /\ mt /= None
    /\ \E s \in DOMAIN mt[1].raw_audio :
        /\ Cardinality(DOMAIN mt[1].raw_audio[s]) = 2
        /\ mt[1].stems[s].ranking /= None
        /\ \A r \in DOMAIN mt[1].raw_audio[s] : mt[1].raw_audio[s][r].ranking /= None
    /\ DOMAIN mt[1].stems \ DOMAIN mt[1].raw_audio /= {}

\* the entries of raw_audio: the sum of len(raw_audio[s]) over the stems
RawEntries(self) == Total([s \in DOMAIN self.raw_audio |-> Cardinality(DOMAIN self.raw_audio[s])])

\* C14: within one MultiTrack, num_raw() is the number of entries of
\* raw_audio summed over all stems, and raw_filepaths() and raw_instruments
\* have that length, whichever pitch caches have been populated.
C14_NoRawTrackIsCollapsed ==
    mt /= None =>
        /\ num_raw(mt[1]) = RawEntries(mt[1])
        /\ Total(raw_filepaths(mt[1])) = RawEntries(mt[1])
        /\ Total(mt[1].raw_instruments) = RawEntries(mt[1])

\* C14 witness: with no audio root, three raw Tracks under two stems have the
\* same instrument and no file path, a stem has loaded its pitch annotation,
\* and num_raw() is 3
C14_Witness ==
    /\ mt /= None
    /\ ~AUDIO_PATH
    /\ Cardinality(DOMAIN mt[1].raw_audio) = 2
    /\ RawEntries(mt[1]) = 3
    /\ DOMAIN mt[1].raw_instruments = {"flute"}
    /\ DOMAIN raw_filepaths(mt[1]) = {None}
    /\ \E s \in DOMAIN mt[1].stems : mt[1].stems[s].pitch_annotation /= None
    /\ num_raw(mt[1]) = 3

====
